---- MODULE Spec2Model ----
(***************************************************************************)
(* Fasty - RSVP speed reading app (src/app.js, class FastyApp).            *)
(*                                                                         *)
(* Strings are modelled as sequences of one-character strings, so that     *)
(* parsing, trimming, word extraction and the ORP split operate on the     *)
(* characters the way the JavaScript does.  The browser's timer queue is   *)
(* the variable timers: the set of setTimeout calls that have neither      *)
(* fired nor been cleared.  One action per event handler / timer callback. *)
(* Pure presentation (CSS classes, progress bar, word counter, centering)  *)
(* is not part of the state.                                               *)
(***************************************************************************)
EXTENDS Integers, Sequences, FiniteSets, TLC

\* ------------------------------------------------------------------------
\* Bounds of the explored inputs
\* ------------------------------------------------------------------------
MaxParagraphs == 2
MaxWords == 4
\* lengths of the strings the text functions are applied to on their own
MaxWordLen == 14
MaxTextLen == 5

\* ------------------------------------------------------------------------
\* Characters
\* ------------------------------------------------------------------------
\* /[a-zA-Z0-9]/
AlnumChars ==
  {"a","b","c","d","e","f","g","h","i","j","k","l","m","n","o","p","q","r",
   "s","t","u","v","w","x","y","z",
   "A","B","C","D","E","F","G","H","I","J","K","L","M","N","O","P","Q","R",
   "S","T","U","V","W","X","Y","Z",
   "0","1","2","3","4","5","6","7","8","9"}

\* /\s/ and String.prototype.trim (the ASCII part); the last one is the
\* vertical tab, U+000B
SpaceChars == {" ", "\t", "\n", "\r", "\f", ""}

\* /[.!?]/
SentenceEndChars == {".", "!", "?"}

\* /["']/
QuoteChars == {"\"", "'"}

\* ------------------------------------------------------------------------
\* String helpers (JavaScript String methods on character sequences)
\* ------------------------------------------------------------------------
RECURSIVE TrimStart(_)
TrimStart(s) ==
  IF Len(s) > 0 /\ s[1] \in SpaceChars THEN TrimStart(Tail(s)) ELSE s

RECURSIVE TrimEnd(_)
TrimEnd(s) ==
  IF Len(s) > 0 /\ s[Len(s)] \in SpaceChars
  THEN TrimEnd(SubSeq(s, 1, Len(s) - 1)) ELSE s

\* s.trim()
Trim(s) == TrimEnd(TrimStart(s))

\* s.split(sep) for a one-character separator; "".split(sep) is [""]
RECURSIVE Split(_, _)
Split(s, sep) ==
  IF \E i \in 1..Len(s) : s[i] = sep
  THEN LET i == CHOOSE k \in 1..Len(s) :
                  s[k] = sep /\ \A j \in 1..(k - 1) : s[j] # sep
       IN  <<SubSeq(s, 1, i - 1)>> \o Split(SubSeq(s, i + 1, Len(s)), sep)
  ELSE <<s>>

\* text.replace(/\r\n/g, '\n')
RECURSIVE ReplaceCRLF(_)
ReplaceCRLF(s) ==
  IF Len(s) = 0 THEN s
  ELSE IF Len(s) >= 2 /\ s[1] = "\r" /\ s[2] = "\n"
       THEN <<"\n">> \o ReplaceCRLF(SubSeq(s, 3, Len(s)))
       ELSE <<s[1]>> \o ReplaceCRLF(Tail(s))

\* text.replace(/\r/g, '\n') and text.replace(/\n/g, ' ')
ReplaceChar(s, from, to) ==
  [i \in 1..Len(s) |-> IF s[i] = from THEN to ELSE s[i]]

\* text.replace(/\s+/g, ' ')
RECURSIVE CollapseSpaces(_)
CollapseSpaces(s) ==
  IF Len(s) = 0 THEN s
  ELSE IF s[1] \in SpaceChars
       THEN <<" ">> \o CollapseSpaces(TrimStart(s))
       ELSE <<s[1]>> \o CollapseSpaces(Tail(s))

\* array.filter(x => x.length > 0)
RECURSIVE FilterNonEmpty(_)
FilterNonEmpty(ss) ==
  IF Len(ss) = 0 THEN <<>>
  ELSE IF Len(ss[1]) > 0
       THEN <<ss[1]>> \o FilterNonEmpty(Tail(ss))
       ELSE FilterNonEmpty(Tail(ss))

\* array.flatMap(p => p.words) / concatenation of a sequence of sequences
RECURSIVE Flatten(_)
Flatten(ss) ==
  IF Len(ss) = 0 THEN <<>> ELSE ss[1] \o Flatten(Tail(ss))

\* ------------------------------------------------------------------------
\* Text processing
\* ------------------------------------------------------------------------
extractWords(text) ==
  LET t == Trim(CollapseSpaces(ReplaceChar(text, "\n", " ")))
  IN  FilterNonEmpty(Split(t, " "))

\* the running sum "absoluteIndex" of parseText
RECURSIVE WordCountBefore(_, _)
WordCountBefore(wordLists, i) ==
  IF i <= 1 THEN 0
  ELSE WordCountBefore(wordLists, i - 1) + Len(wordLists[i - 1])

\* parseText() that keeps the blank lines as paragraphs
parseParagraphs_KeepsBlankLines(text) ==
  LET norm  == ReplaceChar(ReplaceCRLF(text), "\r", "\n")
      lines == Split(norm, "\n")
      paras == [i \in 1..Len(lines) |-> Trim(lines[i])]
      wls   == [i \in 1..Len(paras) |-> extractWords(paras[i])]
  IN  [i \in 1..Len(paras) |->
         [index |-> i - 1,
          text |-> paras[i],
          words |-> wls[i],
          startWordIndex |-> WordCountBefore(wls, i)]]

\* this.paragraphs as parseText builds it
parseParagraphs(text) ==
  LET norm  == ReplaceChar(ReplaceCRLF(text), "\r", "\n")
      lines == Split(norm, "\n")
      paras == FilterNonEmpty([i \in 1..Len(lines) |-> Trim(lines[i])])
      wls   == [i \in 1..Len(paras) |-> extractWords(paras[i])]
  IN  [i \in 1..Len(paras) |->
         [index |-> i - 1,
          text |-> paras[i],
          words |-> wls[i],
          startWordIndex |-> WordCountBefore(wls, i)]]

\* this.words as parseText builds it
parseWords(text) ==
  LET ps == parseParagraphs(text)
  IN  Flatten([i \in 1..Len(ps) |-> ps[i].words])

\* ------------------------------------------------------------------------
\* ORP calculation
\* ------------------------------------------------------------------------
\* word.replace(/[^a-zA-Z0-9]/g, '').length
CleanLength(word) == Cardinality({i \in 1..Len(word) : word[i] \in AlnumChars})

\* number of leading non-alphanumeric characters
LeadingPunctuation(word) ==
  IF \E i \in 1..Len(word) : word[i] \in AlnumChars
  THEN (CHOOSE k \in 1..Len(word) :
          word[k] \in AlnumChars /\ \A j \in 1..(k - 1) : word[j] \notin AlnumChars) - 1
  ELSE Len(word)

calculateORP(word) ==
  LET length == CleanLength(word)
      orpIndex == IF length <= 1 THEN 0
                  ELSE IF length <= 2 THEN 0
                  ELSE IF length <= 3 THEN 1
                  ELSE IF length <= 5 THEN 1
                  ELSE IF length <= 9 THEN 2
                  ELSE IF length <= 13 THEN 3
                  ELSE 4
  IN  LeadingPunctuation(word) + orpIndex

\* word.substring(a, b) with 0-based, clamped arguments (a <= b)
Substring(word, a, b) ==
  LET lo == IF a > Len(word) THEN Len(word) ELSE a
      hi == IF b > Len(word) THEN Len(word) ELSE b
  IN  SubSeq(word, lo + 1, hi)

\* splitWordAtORP() whose "after" starts at the focus character
splitWordAtORP_AfterFromIndex(word) ==
  LET orpIndex == calculateORP(word)
  IN  [before |-> Substring(word, 0, orpIndex),
       focus  |-> IF orpIndex < Len(word) THEN <<word[orpIndex + 1]>> ELSE <<>>,
       after  |-> Substring(word, orpIndex, Len(word))]

splitWordAtORP(word) ==
  LET orpIndex == calculateORP(word)
  IN  [before |-> Substring(word, 0, orpIndex),
       focus  |-> IF orpIndex < Len(word) THEN <<word[orpIndex + 1]>> ELSE <<>>,
       after  |-> Substring(word, orpIndex + 1, Len(word))]

\* /[.!?]$/.test(word) || /[.!?]["']$/.test(word)
isSentenceEnd(word) ==
  \/ Len(word) >= 1 /\ word[Len(word)] \in SentenceEndChars
  \/ Len(word) >= 2 /\ word[Len(word)] \in QuoteChars
                    /\ word[Len(word) - 1] \in SentenceEndChars

\* ------------------------------------------------------------------------
\* Inputs: the texts typed into the textarea and the two select boxes
\* ------------------------------------------------------------------------
\* a plain word, a sentence end, a quoted sentence end with leading punctuation
SampleWords == << <<"a", "b">>, <<"c", ".">>, <<"\"", "d", "!", "\"">> >>

RECURSIVE SumSeq(_)
SumSeq(q) == IF Len(q) = 0 THEN 0 ELSE q[1] + SumSeq(Tail(q))

\* paragraph sizes: one entry per paragraph, at most MaxWords words in all
Shapes ==
  {sh \in UNION {[1..p -> 1..MaxWords] : p \in 1..MaxParagraphs} :
     SumSeq(sh) <= MaxWords}

\* the k-th word (k >= 0) of a shaped text: the sample words in rotation
SampleWordAt(k) == SampleWords[(k % Len(SampleWords)) + 1]

RECURSIVE ShapeWordsBefore(_, _)
ShapeWordsBefore(shape, i) ==
  IF i <= 1 THEN 0 ELSE ShapeWordsBefore(shape, i - 1) + shape[i - 1]

RECURSIVE JoinWords(_, _)
JoinWords(first, n) ==
  IF n = 0 THEN <<>>
  ELSE IF n = 1 THEN SampleWordAt(first)
  ELSE SampleWordAt(first) \o <<" ">> \o JoinWords(first + 1, n - 1)

RECURSIVE JoinParagraphs(_, _)
JoinParagraphs(shape, i) ==
  IF i > Len(shape) THEN <<>>
  ELSE JoinWords(ShapeWordsBefore(shape, i), shape[i])
       \o (IF i < Len(shape) THEN <<"\n">> ELSE <<>>)
       \o JoinParagraphs(shape, i + 1)

ShapedTexts == {JoinParagraphs(sh, 1) : sh \in Shapes}

\* whitespace-only input, and input that starts with a sentence end and has
\* blank lines, tabs, a vertical tab and runs of spaces (the value of a
\* textarea has LF line ends only)
SpecialTexts ==
  { <<" ", "\n", " ">>,
    <<" ", "\"", "d", "!", "\"", " ", " ", "a", "b", "\n", "\n",
      "\t", "c", ".", " ", "\n", "", "a", "b">> }

Texts == ShapedTexts \cup SpecialTexts

\* values offered by #wpm-select and #pause-select
WpmChoices == {200, 300}
PauseChoices == {0, 200}

\* ------------------------------------------------------------------------
\* State
\* ------------------------------------------------------------------------
VARIABLES
  textInput,                \* elements.textInput.value
  words, paragraphs,
  currentWordIndex, currentParagraphIndex,
  isPlaying, isPaused, hasStarted,
  wpm, sentencePause,
  intervalId, sentencePauseTimeoutId,
  timers,                   \* pending setTimeout calls of the event loop
  display,                  \* textContent of wordBefore / wordFocus / wordAfter
  status,                   \* statusText / statusMessage
  last,                     \* history: the handler that ran last and the
                            \* position and mode it started from
  arg, result,              \* a string handed to a text function on its own,
                            \* and what the function returned
  userPresent               \* the user may still issue commands

vars == <<textInput, words, paragraphs, currentWordIndex, currentParagraphIndex,
          isPlaying, isPaused, hasStarted, wpm, sentencePause,
          intervalId, sentencePauseTimeoutId, timers, display, status, last,
          arg, result, userPresent>>

\* the fields of the application
appVars == <<textInput, words, paragraphs, currentWordIndex,
             currentParagraphIndex, isPlaying, isPaused, hasStarted, wpm,
             sentencePause, intervalId, sentencePauseTimeoutId, timers,
             display, status, last>>

\* no function has been applied
NoResult == [fn |-> "none"]

\* null timer handle
NoTimer == 0

\* the callbacks handed to setTimeout in scheduleNextWord
CbSentenceBlank == "sentenceBlank"      \* outer callback, sentence-end branch
CbSentenceAdvance == "sentenceAdvance"  \* inner callback, after sentencePause
CbAdvance == "advance"                  \* callback of the normal branch

\* status messages
MsgPasteClick == "Paste text and click here or press Space"
MsgClickStart == "Click here or press Space to start"
MsgPastePress == "Paste text and press Space to start"
MsgPaused == "Paused - Press Space to continue"
MsgParagraphBreak == "End of paragraph - Press Space to continue"
MsgEndOfText == "Done - Edit text or press Space to restart"

BlankDisplay == [before |-> <<>>, focus |-> <<>>, after |-> <<>>]

\* the fields of the application object, as one record
S ==
  [textInput |-> textInput, words |-> words, paragraphs |-> paragraphs,
   currentWordIndex |-> currentWordIndex,
   currentParagraphIndex |-> currentParagraphIndex,
   isPlaying |-> isPlaying, isPaused |-> isPaused, hasStarted |-> hasStarted,
   wpm |-> wpm, sentencePause |-> sentencePause,
   intervalId |-> intervalId, sentencePauseTimeoutId |-> sentencePauseTimeoutId,
   timers |-> timers, display |-> display, status |-> status]

\* ------------------------------------------------------------------------
\* Methods, as functions from the object's state to its next state
\* ------------------------------------------------------------------------
updateStatus(s, message, isBreak) ==
  [s EXCEPT !.status = [message |-> message, isBreak |-> isBreak, hidden |-> FALSE]]

hideStatus(s) == [s EXCEPT !.status.hidden = TRUE]

clearWordDisplay(s) == [s EXCEPT !.display = BlankDisplay]

displayCurrentWord(s) ==
  IF s.currentWordIndex >= Len(s.words) THEN s
  ELSE [s EXCEPT !.display = splitWordAtORP(s.words[s.currentWordIndex + 1])]

\* timer ids: the browser hands out ids that are not in use; the model takes
\* the smallest id that is neither pending nor held in a handle
UsedTimerIds(s) ==
  {t.id : t \in s.timers} \cup {s.intervalId, s.sentencePauseTimeoutId}

NewTimerId(s) ==
  CHOOSE i \in 1..(Cardinality(UsedTimerIds(s)) + 1) :
    i \notin UsedTimerIds(s) /\ \A j \in 1..(i - 1) : j \in UsedTimerIds(s)

\* clearTimeout(id)
clearTimeout(s, id) == [s EXCEPT !.timers = {t \in @ : t.id # id}]

\* paragraphs[currentParagraphIndex].startWordIndex + .words.length
paragraphEndIndex(s) ==
  LET currentParagraph == s.paragraphs[s.currentParagraphIndex + 1]
  IN  currentParagraph.startWordIndex + Len(currentParagraph.words)

\* pause() that forgets the sentence-pause timer
pause_KeepsSentenceTimer(s) ==
  LET s1 == [s EXCEPT !.isPlaying = FALSE, !.isPaused = TRUE]
      s2 == IF s1.intervalId # NoTimer
            THEN [clearTimeout(s1, s1.intervalId) EXCEPT !.intervalId = NoTimer]
            ELSE s1
  IN  IF s2.hasStarted /\ s2.currentWordIndex < Len(s2.words)
      THEN updateStatus(s2, MsgPaused, FALSE)
      ELSE s2

pause(s) ==
  LET s1 == [s EXCEPT !.isPlaying = FALSE, !.isPaused = TRUE]
      s2 == IF s1.intervalId # NoTimer
            THEN [clearTimeout(s1, s1.intervalId) EXCEPT !.intervalId = NoTimer]
            ELSE s1
      s3 == IF s2.sentencePauseTimeoutId # NoTimer
            THEN [clearTimeout(s2, s2.sentencePauseTimeoutId)
                    EXCEPT !.sentencePauseTimeoutId = NoTimer]
            ELSE s2
  IN  IF s3.hasStarted /\ s3.currentWordIndex < Len(s3.words)
      THEN updateStatus(s3, MsgPaused, FALSE)
      ELSE s3

\* scheduleNextWord() that arms no timer for a word that ends a sentence
scheduleNextWord_DropsSentenceEnd(s) ==
  IF ~s.isPlaying THEN s
  ELSE
    LET baseInterval == 60000 \div s.wpm
        needsSentencePause ==
          /\ s.sentencePause > 0
          /\ s.currentWordIndex < Len(s.words)
          /\ isSentenceEnd(s.words[s.currentWordIndex + 1])
        id == NewTimerId(s)
    IN  IF needsSentencePause THEN s
        ELSE [s EXCEPT !.intervalId = id,
                       !.timers = @ \cup {[id |-> id, cb |-> CbAdvance,
                                           delay |-> baseInterval]}]

scheduleNextWord(s) ==
  IF ~s.isPlaying THEN s
  ELSE
    LET baseInterval == 60000 \div s.wpm
        needsSentencePause ==
          /\ s.sentencePause > 0
          /\ s.currentWordIndex < Len(s.words)
          /\ isSentenceEnd(s.words[s.currentWordIndex + 1])
        id == NewTimerId(s)
        cb == IF needsSentencePause THEN CbSentenceBlank ELSE CbAdvance
    IN  [s EXCEPT !.intervalId = id,
                  !.timers = @ \cup {[id |-> id, cb |-> cb, delay |-> baseInterval]}]

\* play() without the isPlaying guard
play_NoPlayingGuard(s) ==
  IF s.currentWordIndex >= Len(s.words) THEN s
  ELSE scheduleNextWord(
         hideStatus([s EXCEPT !.isPlaying = TRUE, !.isPaused = FALSE]))

play(s) ==
  IF s.isPlaying \/ s.currentWordIndex >= Len(s.words) THEN s
  ELSE scheduleNextWord(
         hideStatus([s EXCEPT !.isPlaying = TRUE, !.isPaused = FALSE]))

showParagraphBreak(s) == updateStatus(s, MsgParagraphBreak, TRUE)

showEndOfText(s) == updateStatus(s, MsgEndOfText, TRUE)

\* advanceWord() with > instead of >= in the paragraph-end test
advanceWord_OffByOne(s) ==
  LET s1 == [s EXCEPT !.currentWordIndex = @ + 1]
  IN  IF s1.currentWordIndex > paragraphEndIndex(s1)
      THEN LET s2 == pause(s1)
           IN  IF s2.currentParagraphIndex < Len(s2.paragraphs) - 1
               THEN showParagraphBreak(s2)
               ELSE showEndOfText(s2)
      ELSE \* scheduleNextWord() runs on the state displayCurrentWord() left;
           \* the binding makes TLC render the word once
           CHOOSE r \in {scheduleNextWord(d) : d \in {displayCurrentWord(s1)}} : TRUE

advanceWord(s) ==
  LET s1 == [s EXCEPT !.currentWordIndex = @ + 1]
  IN  IF s1.currentWordIndex >= paragraphEndIndex(s1)
      THEN LET s2 == pause(s1)
           IN  IF s2.currentParagraphIndex < Len(s2.paragraphs) - 1
               THEN showParagraphBreak(s2)
               ELSE showEndOfText(s2)
      ELSE \* scheduleNextWord() runs on the state displayCurrentWord() left;
           \* the binding makes TLC render the word once
           CHOOSE r \in {scheduleNextWord(d) : d \in {displayCurrentWord(s1)}} : TRUE

\* reset() that leaves the isPaused flag pause() has set
reset_LeavesPaused(s) ==
  clearWordDisplay(
    [pause(s) EXCEPT !.words = <<>>, !.paragraphs = <<>>,
                     !.currentWordIndex = 0, !.currentParagraphIndex = 0,
                     !.hasStarted = FALSE])

reset(s) ==
  clearWordDisplay(
    [pause(s) EXCEPT !.words = <<>>, !.paragraphs = <<>>,
                     !.currentWordIndex = 0, !.currentParagraphIndex = 0,
                     !.hasStarted = FALSE, !.isPaused = FALSE])

\* startReading() without the two emptiness tests
startReading_StartsAnyway(s) ==
  LET s1 == [s EXCEPT !.paragraphs = parseParagraphs(s.textInput),
                      !.words = parseWords(s.textInput)]
  IN  play(displayCurrentWord(
        [s1 EXCEPT !.currentWordIndex = 0, !.currentParagraphIndex = 0,
                   !.hasStarted = TRUE]))

startReading(s) ==
  IF Len(Trim(s.textInput)) = 0
  THEN updateStatus(s, MsgPastePress, FALSE)
  ELSE
    LET s1 == [s EXCEPT !.paragraphs = parseParagraphs(s.textInput),
                        !.words = parseWords(s.textInput)]
    IN  IF Len(s1.words) = 0 THEN s1
        ELSE play(displayCurrentWord(
               [s1 EXCEPT !.currentWordIndex = 0, !.currentParagraphIndex = 0,
                          !.hasStarted = TRUE]))

continueAfterParagraph(s) ==
  LET s1 ==
        IF /\ s.currentParagraphIndex >= Len(s.paragraphs) - 1
           /\ s.currentWordIndex >= Len(s.words)
        THEN [s EXCEPT !.currentWordIndex = 0, !.currentParagraphIndex = 0]
        ELSE LET s0 == [s EXCEPT !.currentParagraphIndex = @ + 1]
             IN  IF s0.currentParagraphIndex < Len(s0.paragraphs)
                 THEN [s0 EXCEPT !.currentWordIndex =
                         s0.paragraphs[s0.currentParagraphIndex + 1].startWordIndex]
                 ELSE s0
  IN  play(displayCurrentWord(s1))

restartCurrentParagraph(s) ==
  LET currentParagraph == s.paragraphs[s.currentParagraphIndex + 1]
  IN  play(displayCurrentWord(
        [s EXCEPT !.currentWordIndex = currentParagraph.startWordIndex]))

\* handleReaderClick() that only toggles play/pause
handleReaderClick_TogglesOnly(s) ==
  IF ~s.hasStarted THEN startReading(s)
  ELSE IF s.isPaused THEN play(s) ELSE pause(s)

handleReaderClick(s) ==
  IF ~s.hasStarted THEN startReading(s)
  ELSE IF s.isPaused
       THEN IF s.currentWordIndex >= paragraphEndIndex(s)
            THEN continueAfterParagraph(s)
            ELSE play(s)
       ELSE pause(s)

\* public method of window.fastyApp that no listener calls
togglePlayPause(s) ==
  IF ~s.hasStarted THEN startReading(s)
  ELSE IF s.isPlaying THEN pause(s) ELSE play(s)

onTextChange(s, text) ==
  LET s0 == [s EXCEPT !.textInput = text]
      s1 == IF s0.hasStarted THEN reset(s0) ELSE s0
  IN  IF Len(Trim(s1.textInput)) > 0
      THEN updateStatus(s1, MsgClickStart, FALSE)
      ELSE updateStatus(s1, MsgPasteClick, FALSE)

\* onWpmChange() that leaves the running timer alone
onWpmChange_NoRestart(s, value) == [s EXCEPT !.wpm = value]

onWpmChange(s, value) ==
  LET s1 == [s EXCEPT !.wpm = value]
  IN  IF s1.isPlaying THEN play(pause(s1)) ELSE s1

onPauseChange(s, value) == [s EXCEPT !.sentencePause = value]

navigatePrev(s) ==
  IF s.hasStarted /\ s.currentWordIndex > 0
  THEN updateStatus(
         displayCurrentWord([pause(s) EXCEPT !.currentWordIndex = @ - 1]),
         MsgPaused, FALSE)
  ELSE s

navigateNext(s) ==
  IF s.hasStarted /\ s.currentWordIndex < Len(s.words) - 1
  THEN updateStatus(
         displayCurrentWord([pause(s) EXCEPT !.currentWordIndex = @ + 1]),
         MsgPaused, FALSE)
  ELSE s

\* onGlobalKeydown, e.code === 'Space'
keydownSpace(s) ==
  IF ~s.hasStarted THEN startReading(s)
  ELSE IF s.isPaused
       THEN IF s.currentWordIndex >= paragraphEndIndex(s)
            THEN continueAfterParagraph(s)
            ELSE play(s)
       ELSE pause(s)

\* ArrowLeft that wraps around at the first word
keydownArrowLeft_Wraps(s) ==
  IF s.hasStarted
  THEN LET s1 == pause(s)
       IN  displayCurrentWord(
             [s1 EXCEPT !.currentWordIndex =
                IF @ > 0 THEN @ - 1 ELSE Len(s1.words) - 1])
  ELSE s

\* onGlobalKeydown, e.code === 'ArrowLeft'
keydownArrowLeft(s) ==
  IF s.hasStarted
  THEN LET s1 == pause(s)
       IN  IF s1.currentWordIndex > 0
           THEN displayCurrentWord([s1 EXCEPT !.currentWordIndex = @ - 1])
           ELSE s1
  ELSE s

\* onGlobalKeydown, e.code === 'ArrowRight'
keydownArrowRight(s) ==
  IF s.hasStarted
  THEN LET s1 == pause(s)
       IN  IF s1.currentWordIndex < Len(s1.words) - 1
           THEN displayCurrentWord([s1 EXCEPT !.currentWordIndex = @ + 1])
           ELSE s1
  ELSE s

\* onGlobalKeydown, e.code === 'KeyR'
keydownKeyR(s) ==
  IF s.hasStarted THEN restartCurrentParagraph(s) ELSE s

\* the setTimeout callbacks of scheduleNextWord
\* outer callback that advances right after blanking
sentenceBlankCallback_AdvancesAtOnce(s) ==
  IF ~s.isPlaying THEN s ELSE advanceWord(clearWordDisplay(s))

sentenceBlankCallback(s) ==
  IF ~s.isPlaying THEN s
  ELSE LET s1 == clearWordDisplay(s)
           id == NewTimerId(s1)
       IN  [s1 EXCEPT !.sentencePauseTimeoutId = id,
                      !.timers = @ \cup {[id |-> id, cb |-> CbSentenceAdvance,
                                          delay |-> s1.sentencePause]}]

advanceCallback(s) ==
  IF ~s.isPlaying THEN s ELSE advanceWord(s)

\* ------------------------------------------------------------------------
\* Initial state and actions
\* ------------------------------------------------------------------------
Init ==
  /\ textInput = <<>>
  /\ words = <<>>
  /\ paragraphs = <<>>
  /\ currentWordIndex = 0
  /\ currentParagraphIndex = 0
  /\ isPlaying = FALSE
  /\ isPaused = FALSE
  /\ hasStarted = FALSE
  /\ wpm \in WpmChoices
  /\ sentencePause \in PauseChoices
  /\ intervalId = NoTimer
  /\ sentencePauseTimeoutId = NoTimer
  /\ timers = {}
  /\ display = BlankDisplay
  /\ status = [message |-> MsgPasteClick, isBreak |-> FALSE, hidden |-> FALSE]
  /\ last = [op |-> "init", wordIndex |-> 0, playing |-> FALSE]
  /\ arg = <<>>
  /\ result = NoResult
  /\ userPresent = TRUE

\* the handler op takes the object from state S to state s2
Becomes(s2, op) == \E r \in {s2} :
  /\ textInput' = r.textInput
  /\ words' = r.words
  /\ paragraphs' = r.paragraphs
  /\ currentWordIndex' = r.currentWordIndex
  /\ currentParagraphIndex' = r.currentParagraphIndex
  /\ isPlaying' = r.isPlaying
  /\ isPaused' = r.isPaused
  /\ hasStarted' = r.hasStarted
  /\ wpm' = r.wpm
  /\ sentencePause' = r.sentencePause
  /\ intervalId' = r.intervalId
  /\ sentencePauseTimeoutId' = r.sentencePauseTimeoutId
  /\ timers' = r.timers
  /\ display' = r.display
  /\ status' = r.status
  /\ last' = [op |-> op, wordIndex |-> currentWordIndex, playing |-> isPlaying]
  /\ UNCHANGED <<arg, result, userPresent>>

\* 'input' event of the textarea, with the value it has after the event
OnTextChange == \E t \in Texts \cup {<<>>} :
  Becomes(onTextChange(S, t), "onTextChange")

\* 'change' event of #wpm-select: another option was chosen
OnWpmChange == \E w \in WpmChoices :
  /\ w # wpm
  /\ Becomes(onWpmChange(S, w), "onWpmChange")

\* 'change' event of #pause-select
OnPauseChange == \E p \in PauseChoices :
  /\ p # sentencePause
  /\ Becomes(onPauseChange(S, p), "onPauseChange")

\* a call of window.fastyApp.togglePlayPause()
TogglePlayPause == Becomes(togglePlayPause(S), "togglePlayPause")

HandleReaderClick == Becomes(handleReaderClick(S), "handleReaderClick")

KeydownSpace == Becomes(keydownSpace(S), "keydownSpace")

NavigatePrev == Becomes(navigatePrev(S), "navigatePrev")

NavigateNext == Becomes(navigateNext(S), "navigateNext")

KeydownArrowLeft == Becomes(keydownArrowLeft(S), "keydownArrowLeft")

KeydownArrowRight == Becomes(keydownArrowRight(S), "keydownArrowRight")

KeydownKeyR == Becomes(keydownKeyR(S), "keydownKeyR")

\* a pending timer expires: it leaves the queue and its callback runs
TimerSentenceBlank == \E t \in timers :
  /\ t.cb = CbSentenceBlank
  /\ \E s0 \in {[S EXCEPT !.timers = @ \ {t}]} :
       Becomes(sentenceBlankCallback(s0), "timerSentenceBlank")

TimerSentenceAdvance == \E t \in timers :
  /\ t.cb = CbSentenceAdvance
  /\ \E s0 \in {[S EXCEPT !.timers = @ \ {t}]} :
       Becomes(advanceCallback(s0), "timerSentenceAdvance")

TimerAdvance == \E t \in timers :
  /\ t.cb = CbAdvance
  /\ \E s0 \in {[S EXCEPT !.timers = @ \ {t}]} :
       Becomes(advanceCallback(s0), "timerAdvance")

Next ==
  \/ OnTextChange
  \/ OnWpmChange
  \/ OnPauseChange
  \/ HandleReaderClick
  \/ KeydownSpace
  \/ NavigatePrev
  \/ NavigateNext
  \/ KeydownArrowLeft
  \/ KeydownArrowRight
  \/ KeydownKeyR
  \/ TogglePlayPause
  \/ TimerSentenceBlank
  \/ TimerSentenceAdvance
  \/ TimerAdvance

Spec == Init /\ [][Next]_vars

\* ------------------------------------------------------------------------
\* Unattended playback: at some moment during playback the user stops
\* issuing commands; from then on only the pending timers act, and the event
\* loop runs every timer that stays pending
\* ------------------------------------------------------------------------
UserLeaves ==
  /\ userPresent
  /\ isPlaying
  /\ userPresent' = FALSE
  /\ UNCHANGED <<appVars, arg, result>>

UserCommand ==
  /\ userPresent
  /\ \/ OnTextChange
     \/ OnWpmChange
     \/ OnPauseChange
     \/ HandleReaderClick
     \/ KeydownSpace
     \/ NavigatePrev
     \/ NavigateNext
     \/ KeydownArrowLeft
     \/ KeydownArrowRight
     \/ KeydownKeyR
     \/ TogglePlayPause

LiveNext ==
  \/ UserCommand
  \/ UserLeaves
  \/ TimerSentenceBlank
  \/ TimerSentenceAdvance
  \/ TimerAdvance

\* the fairness the claim needs: once the user has left, a timer that stays
\* pending expires (while the user is present nothing is assumed of timers)
LiveSpec ==
  /\ Init
  /\ [][LiveNext]_vars
  /\ WF_vars(~userPresent /\ TimerSentenceBlank)
  /\ WF_vars(~userPresent /\ TimerSentenceAdvance)
  /\ WF_vars(~userPresent /\ TimerAdvance)

\* ------------------------------------------------------------------------
\* The text functions on their own: parseText and splitWordAtORP applied to
\* every string up to a length, on the application as constructed
\* ------------------------------------------------------------------------
WordAlphabet == {"a", "."}
TextAlphabet == {"a", ".", " ", "\n", "\r", ""}

StringsOver(alphabet, maxLen) ==
  UNION {[1..n -> alphabet] : n \in 0..maxLen}

PureInputs ==
  StringsOver(WordAlphabet, MaxWordLen) \cup StringsOver(TextAlphabet, MaxTextLen)

PureInit ==
  /\ textInput = <<>>
  /\ words = <<>>
  /\ paragraphs = <<>>
  /\ currentWordIndex = 0
  /\ currentParagraphIndex = 0
  /\ isPlaying = FALSE
  /\ isPaused = FALSE
  /\ hasStarted = FALSE
  /\ wpm = 300
  /\ sentencePause = 200
  /\ intervalId = NoTimer
  /\ sentencePauseTimeoutId = NoTimer
  /\ timers = {}
  /\ display = BlankDisplay
  /\ status = [message |-> MsgPasteClick, isBreak |-> FALSE, hidden |-> FALSE]
  /\ last = [op |-> "init", wordIndex |-> 0, playing |-> FALSE]
  /\ arg \in PureInputs
  /\ result = NoResult
  /\ userPresent = TRUE

\* splitWordAtORP(arg), with the index calculateORP(arg) it splits at
ApplySplitWordAtORP ==
  /\ result = NoResult
  /\ result' = [fn |-> "splitWordAtORP",
                orpIndex |-> calculateORP(arg),
                parts |-> splitWordAtORP(arg)]
  /\ UNCHANGED <<arg, appVars, userPresent>>

\* parseText(arg): assigns this.paragraphs and this.words, returns the flag
ApplyParseText ==
  /\ result = NoResult
  /\ paragraphs' = parseParagraphs(arg)
  /\ words' = parseWords(arg)
  /\ result' = [fn |-> "parseText",
                paragraphs |-> parseParagraphs(arg),
                words |-> parseWords(arg),
                ok |-> Len(parseWords(arg)) > 0]
  /\ UNCHANGED <<arg, userPresent, textInput, currentWordIndex,
                 currentParagraphIndex, isPlaying, isPaused, hasStarted, wpm,
                 sentencePause, intervalId, sentencePauseTimeoutId, timers,
                 display, status, last>>

PureNext == ApplySplitWordAtORP \/ ApplyParseText

PureSpec == PureInit /\ [][PureNext]_vars

\* ------------------------------------------------------------------------
\* Vocabulary of the properties
\* ------------------------------------------------------------------------
totalWords == Len(words)

\* timers armed by scheduleNextWord into intervalId / by its outer callback
\* into sentencePauseTimeoutId
AdvanceTimers == {t \in timers : t.cb \in {CbSentenceBlank, CbAdvance}}
SentencePauseTimers == {t \in timers : t.cb = CbSentenceAdvance}

TypeOK ==
  /\ currentWordIndex \in Nat
  /\ currentParagraphIndex \in Nat
  /\ isPlaying \in BOOLEAN /\ isPaused \in BOOLEAN /\ hasStarted \in BOOLEAN
  /\ wpm \in WpmChoices /\ sentencePause \in PauseChoices

\* the step just taken is a run of the named handler (Becomes records it)
Activation == last'.op \in {"handleReaderClick", "keydownSpace"}
WpmChanged == last'.op = "onWpmChange"
SentenceBlankFired == last'.op = "timerSentenceBlank"
SentenceAdvanceFired == last'.op = "timerSentenceAdvance"

\* the advance timer scheduleNextWord arms for the word at index i under the
\* current settings
IsTimerFor(t, i, w, sp, ws) ==
  /\ t.delay = 60000 \div w
  /\ t.cb = IF sp > 0 /\ i < Len(ws) /\ isSentenceEnd(ws[i + 1])
            THEN CbSentenceBlank ELSE CbAdvance

\* index one past the last word of paragraph i (1-based i)
EndOfParagraph(i) == paragraphs[i].startWordIndex + Len(paragraphs[i].words)

\* ------------------------------------------------------------------------
\* C1: whenever the mode is not Playing (NotStarted or Paused), no advance
\* timer and no sentence-pause timer is outstanding, so no armed callback can
\* still fire.
\* ------------------------------------------------------------------------
C1_NoTimerUnlessPlaying ==
  ~isPlaying => (AdvanceTimers = {} /\ SentencePauseTimers = {} /\ timers = {})

\* paused at a paragraph end by the sentence-pause timer, whose advance
\* handle was left stale
C1_Witness ==
  /\ last.op = "timerSentenceAdvance"
  /\ last.playing /\ isPaused /\ ~isPlaying
  /\ status.isBreak
  /\ timers = {}

\* ------------------------------------------------------------------------
\* C2: at any moment at most one advance timer and at most one sentence-pause
\* timer are outstanding, whatever the interleaving of commands and timers.
\* ------------------------------------------------------------------------
C2_AtMostOneTimerOfEachKind ==
  /\ Cardinality(AdvanceTimers) <= 1
  /\ Cardinality(SentencePauseTimers) <= 1

\* restartCurrentParagraph was pressed while a timer was pending
C2_Witness ==
  /\ last.op = "keydownKeyR"
  /\ last.playing /\ isPlaying
  /\ Cardinality(AdvanceTimers) = 1

\* ------------------------------------------------------------------------
\* C3: once started, 0 <= currentWordIndex <= totalWords.
\* ------------------------------------------------------------------------
C3_WordIndexInRange ==
  hasStarted => (0 <= currentWordIndex /\ currentWordIndex <= totalWords)

\* the end of a text of several words was reached by the timer
C3_Witness ==
  /\ hasStarted
  /\ totalWords > 1
  /\ currentWordIndex = totalWords
  /\ last.op \in {"timerAdvance", "timerSentenceAdvance"}

\* ------------------------------------------------------------------------
\* C4: once started, currentParagraphIndex is the index of the paragraph
\* whose word range contains currentWordIndex, or the last paragraph when
\* currentWordIndex = totalWords.
\* ------------------------------------------------------------------------
C4_ParagraphContainsWord ==
  hasStarted =>
    IF currentWordIndex = totalWords
    THEN currentParagraphIndex = Len(paragraphs) - 1
    ELSE /\ currentParagraphIndex \in 0..(Len(paragraphs) - 1)
         /\ paragraphs[currentParagraphIndex + 1].startWordIndex <= currentWordIndex
         /\ currentWordIndex < EndOfParagraph(currentParagraphIndex + 1)

\* ------------------------------------------------------------------------
\* C5: a step backward at index 0 and a step forward at index totalWords-1
\* or at end of text leave currentWordIndex unchanged; any other step changes
\* it by exactly one and lands in [0, totalWords-1].
\* ------------------------------------------------------------------------
C5_StepsAreClamped ==
  /\ last.op \in {"navigatePrev", "keydownArrowLeft"} =>
       IF ~hasStarted \/ last.wordIndex = 0
       THEN currentWordIndex = last.wordIndex
       ELSE /\ currentWordIndex = last.wordIndex - 1
            /\ currentWordIndex \in 0..(totalWords - 1)
  /\ last.op \in {"navigateNext", "keydownArrowRight"} =>
       IF ~hasStarted \/ last.wordIndex >= totalWords - 1
       THEN currentWordIndex = last.wordIndex
       ELSE /\ currentWordIndex = last.wordIndex + 1
            /\ currentWordIndex \in 0..(totalWords - 1)

\* a step forward at end of text did not move
C5_Witness ==
  /\ hasStarted
  /\ last.op = "keydownArrowRight"
  /\ last.wordIndex = totalWords
  /\ currentWordIndex = totalWords

\* ------------------------------------------------------------------------
\* C6: whenever a timer advances currentWordIndex past the last word of a
\* paragraph, the engine is Paused with all timers cancelled and the status
\* has isBreak set: "end of paragraph" if a later paragraph exists, "end of
\* text" otherwise.
\* ------------------------------------------------------------------------
C6_ParagraphEndPauses ==
  \A i \in 1..Len(paragraphs) :
    ( /\ last.op \in {"timerAdvance", "timerSentenceAdvance"}
      /\ currentWordIndex = last.wordIndex + 1
      /\ currentWordIndex = EndOfParagraph(i) )
    => /\ isPaused /\ ~isPlaying
       /\ timers = {}
       /\ status.isBreak /\ ~status.hidden
       /\ status.message = IF i < Len(paragraphs)
                           THEN MsgParagraphBreak ELSE MsgEndOfText

\* ------------------------------------------------------------------------
\* C7: continueAfterParagraph, invoked while Paused at a paragraph end, goes
\* to (0,0) from the very end of the text and otherwise to the start of the
\* next paragraph; afterwards the mode is Playing with one timer armed for
\* the new current word, and currentParagraphIndex is a valid index.
\* ------------------------------------------------------------------------
C7_ContinueAfterParagraph ==
  [][ ( /\ Activation
        /\ hasStarted /\ isPaused
        /\ currentWordIndex >= paragraphEndIndex(S) )
      => /\ IF currentWordIndex = totalWords
            THEN currentWordIndex' = 0 /\ currentParagraphIndex' = 0
            ELSE /\ currentParagraphIndex' = currentParagraphIndex + 1
                 /\ currentWordIndex' =
                      paragraphs[currentParagraphIndex' + 1].startWordIndex
         /\ currentParagraphIndex' \in 0..(Len(paragraphs) - 1)
         /\ isPlaying' /\ ~isPaused'
         /\ Cardinality(timers') = 1
         /\ \A t \in timers' :
              /\ t.id = intervalId'
              /\ IsTimerFor(t, currentWordIndex', wpm', sentencePause', words')
    ]_vars

\* ------------------------------------------------------------------------
\* C8: once started, every activation flips the mode: Playing becomes
\* Paused, and every Paused state becomes Playing - by continuing after the
\* paragraph when currentWordIndex is at or after the current paragraph's
\* end, by playing from the same position otherwise.
\* ------------------------------------------------------------------------
C8_ActivationFlipsMode ==
  [][ (Activation /\ hasStarted)
      => /\ isPlaying => (isPaused' /\ ~isPlaying' /\ hasStarted')
         /\ (~isPlaying /\ isPaused) =>
              /\ isPlaying' /\ ~isPaused' /\ hasStarted'
              /\ timers' # {}
              /\ currentParagraphIndex' \in 0..(Len(paragraphs) - 1)
              /\ currentWordIndex' < totalWords
              /\ IF currentWordIndex >= paragraphEndIndex(S)
                 THEN <<currentWordIndex', currentParagraphIndex'>> =
                        <<continueAfterParagraph(S).currentWordIndex,
                          continueAfterParagraph(S).currentParagraphIndex>>
                 ELSE <<currentWordIndex', currentParagraphIndex'>> =
                        <<currentWordIndex, currentParagraphIndex>>
         /\ (isPlaying \/ isPaused)
    ]_vars

\* playback resumed in the middle of a paragraph from a pause taken while
\* the display was blank
C8_Witness ==
  /\ last.op = "handleReaderClick"
  /\ ~last.playing /\ isPlaying
  /\ last.wordIndex = currentWordIndex
  /\ currentWordIndex > 0
  /\ display = BlankDisplay

\* ------------------------------------------------------------------------
\* C9: changing wordsPerMinute while Playing leaves the position unchanged
\* and the mode Playing, and afterwards exactly one timer is pending: an
\* advance timer for the same word with the new interval.
\* ------------------------------------------------------------------------
C9_WpmChangeRestartsTimer ==
  [][ (WpmChanged /\ isPlaying)
      => /\ currentWordIndex' = currentWordIndex
         /\ currentParagraphIndex' = currentParagraphIndex
         /\ isPlaying' /\ ~isPaused'
         /\ wpm' # wpm
         /\ SentencePauseTimers' = {}
         /\ Cardinality(AdvanceTimers') = 1
         /\ \A t \in timers' :
              /\ t.id = intervalId'
              /\ IsTimerFor(t, currentWordIndex, wpm', sentencePause, words)
    ]_vars

\* the rate was changed during the blank phase of a sentence pause
C9_Witness ==
  /\ last.op = "onWpmChange"
  /\ last.playing /\ isPlaying
  /\ last.wordIndex = currentWordIndex
  /\ display = BlankDisplay
  /\ Cardinality(AdvanceTimers) = 1

\* ------------------------------------------------------------------------
\* C10: a timer armed while the current word is a sentence end and
\* sentencePause > 0 works in two steps: its firing blanks the display,
\* keeps currentWordIndex and arms the sentence-pause timer; the index
\* advances when that timer fires.  A pause between the two steps, taken
\* while the display is blank, cancels the timers, keeps the index and
\* leaves the display blank for as long as the engine stays paused at that
\* index.
\* ------------------------------------------------------------------------
C10_SentencePauseTwoSteps ==
  [][ /\ \A t \in AdvanceTimers' \ AdvanceTimers :
           (t.cb = CbSentenceBlank) <=>
             ( /\ sentencePause' > 0
               /\ isSentenceEnd(words'[currentWordIndex' + 1]) )
      /\ SentenceBlankFired =>
           /\ currentWordIndex' = currentWordIndex
           /\ display' = BlankDisplay
           /\ isPlaying'
           /\ AdvanceTimers' = {}
           /\ Cardinality(SentencePauseTimers') = 1
      /\ SentenceAdvanceFired =>
           currentWordIndex' = currentWordIndex + 1
      /\ ( /\ SentencePauseTimers # {}
           /\ display = BlankDisplay
           /\ hasStarted' /\ ~isPlaying'
           /\ ~SentenceAdvanceFired
           /\ currentWordIndex' = currentWordIndex )
         => /\ timers' = {}
            /\ display' = BlankDisplay
      /\ (~isPlaying /\ ~isPlaying' /\ hasStarted /\ hasStarted'
          /\ currentWordIndex' = currentWordIndex /\ display = BlankDisplay)
         => display' = BlankDisplay
    ]_vars

\* paused by the user between the blanking and the advance
C10_Witness ==
  /\ last.op = "keydownSpace"
  /\ last.playing /\ isPaused /\ hasStarted
  /\ last.wordIndex = currentWordIndex
  /\ display = BlankDisplay
  /\ isSentenceEnd(words[currentWordIndex + 1])
  /\ timers = {}

\* ------------------------------------------------------------------------
\* C11: an activation with blank or whitespace-only text in the textarea
\* starts nothing: the mode stays NotStarted, hasStarted stays false, the
\* position, the words, the paragraphs and the timer handles are unchanged
\* and no timer is armed.
\* ------------------------------------------------------------------------
C11_BlankStartChangesNothing ==
  [][ (Activation /\ ~hasStarted /\ Len(Trim(textInput)) = 0)
      => /\ ~hasStarted' /\ ~isPlaying' /\ ~isPaused'
         /\ currentWordIndex' = currentWordIndex
         /\ currentParagraphIndex' = currentParagraphIndex
         /\ words' = words
         /\ paragraphs' = paragraphs
         /\ intervalId' = intervalId
         /\ sentencePauseTimeoutId' = sentencePauseTimeoutId
         /\ timers' = {}
    ]_vars

\* a start was attempted on whitespace-only text
C11_Witness ==
  /\ last.op = "keydownSpace"
  /\ ~hasStarted
  /\ Len(textInput) > 0 /\ Len(Trim(textInput)) = 0
  /\ status.message = MsgPastePress

\* ------------------------------------------------------------------------
\* C12: for every word W, the empty word and words made only of punctuation
\* included, splitWordAtORP(W) returns before, focus and after whose
\* concatenation is W, with a focus of at most one character.
\* ------------------------------------------------------------------------
C12_SplitRoundTrip ==
  result.fn = "splitWordAtORP" =>
    /\ result.parts.before \o result.parts.focus \o result.parts.after = arg
    /\ Len(result.parts.focus) <= 1

\* a word made only of punctuation was split: the focus is empty
C12_Witness ==
  /\ result.fn = "splitWordAtORP"
  /\ arg = <<".", ".", ".">>
  /\ result.parts.focus = <<>>
  /\ result.parts.before = arg

\* ------------------------------------------------------------------------
\* C13: for every input text, parseText produces the paragraphs in source
\* order, each with at least one word; startWordIndex of paragraph i is the
\* number of words in the paragraphs before it, and this.words is the
\* concatenation of the paragraphs' words, which are the whitespace-separated
\* words of the text in their order.
\* ------------------------------------------------------------------------
C13_ParagraphOffsets ==
  result.fn = "parseText" =>
    LET ps == result.paragraphs
        ws == result.words
        counts == [i \in 1..Len(ps) |-> Len(ps[i].words)]
    IN  /\ \A i \in 1..Len(ps) :
             /\ ps[i].index = i - 1
             /\ Len(ps[i].words) >= 1
             /\ ps[i].startWordIndex = SumSeq(SubSeq(counts, 1, i - 1))
             /\ \A k \in 1..Len(ps[i].words) :
                  /\ ps[i].startWordIndex + k <= Len(ws)
                  /\ ws[ps[i].startWordIndex + k] = ps[i].words[k]
        /\ Len(ws) = SumSeq(counts)
        /\ ws = extractWords(arg)
        /\ result.ok <=> (Len(ws) > 0)

\* a text of two lines: two paragraphs, the second starting at word 2
C13_Witness ==
  /\ result.fn = "parseText"
  /\ arg = <<"a", " ", ".", "\n", "a">>
  /\ Len(result.paragraphs) = 2
  /\ result.paragraphs[2].startWordIndex = 2
  /\ Len(result.words) = 3

StepOps ==
  {"navigatePrev", "navigateNext", "keydownArrowLeft", "keydownArrowRight"}

\* ------------------------------------------------------------------------
\* C14: every step command issued once started pauses first: afterwards the
\* mode is Paused and no timer is outstanding, also when the command is
\* issued while Playing at a boundary where the index does not move.
\* ------------------------------------------------------------------------
C14_StepsPauseFirst ==
  (last.op \in StepOps /\ hasStarted) =>
    (isPaused /\ ~isPlaying /\ timers = {})

\* ------------------------------------------------------------------------
\* C15: whenever an advance timer is pending, the display shows the ORP
\* split of words[currentWordIndex]: no advance timer runs for a word while
\* the display is blank or shows another word.
\* ------------------------------------------------------------------------
C15_TimerRunsForDisplayedWord ==
  AdvanceTimers # {} =>
    /\ currentWordIndex < totalWords
    /\ display = splitWordAtORP(words[currentWordIndex + 1])

\* ------------------------------------------------------------------------
\* C16: for every word with at least one ASCII letter or digit, the index
\* calculateORP returns points at an ASCII letter or digit of the word.
\* ------------------------------------------------------------------------
C16_FocusIsAlphanumeric ==
  ( /\ result.fn = "splitWordAtORP"
    /\ \E i \in 1..Len(arg) : arg[i] \in AlnumChars )
  => /\ result.orpIndex < Len(arg)
     /\ arg[result.orpIndex + 1] \in AlnumChars

\* ------------------------------------------------------------------------
\* C17: after a step command that moves currentWordIndex the status is the
\* plain paused status with isBreak = false, also when the step starts from
\* a paragraph-break or end-of-text pause.
\* ------------------------------------------------------------------------
C17_StepReportsPlainPause ==
  (last.op \in StepOps /\ hasStarted /\ currentWordIndex # last.wordIndex) =>
    status = [message |-> MsgPaused, isBreak |-> FALSE, hidden |-> FALSE]

\* ------------------------------------------------------------------------
\* C18: isPlaying and isPaused are never both true, hasStarted is true
\* exactly when one of them is, and hasStarted turns false only through the
\* reset of a text change.
\* ------------------------------------------------------------------------
C18_ModeFlags ==
  /\ [](/\ ~(isPlaying /\ isPaused)
        /\ hasStarted <=> (isPlaying \/ isPaused))
  /\ [][(hasStarted /\ ~hasStarted') => last'.op = "onTextChange"]_vars

\* the text was changed during playback: back to NotStarted
C18_Witness ==
  /\ last.op = "onTextChange"
  /\ last.playing
  /\ ~hasStarted /\ ~isPlaying /\ ~isPaused
  /\ words = <<>>

\* ------------------------------------------------------------------------
\* C19: a timer callback blanks the display only when the word at
\* currentWordIndex at that moment is a sentence end, also when a command
\* has changed the position while the timer was pending.
\* ------------------------------------------------------------------------
C19_OnlySentenceEndsAreBlanked ==
  last.op = "timerSentenceBlank" =>
    /\ currentWordIndex < totalWords
    /\ isSentenceEnd(words[currentWordIndex + 1])

\* ------------------------------------------------------------------------
\* C20: when step commands have left the engine Paused at word index k, the
\* next activation resumes Playing with currentWordIndex still k.
\* ------------------------------------------------------------------------
C20_ResumeAfterStepsKeepsWord ==
  [][ ( /\ Activation
        /\ last.op \in StepOps
        /\ hasStarted /\ isPaused
        /\ currentWordIndex < totalWords )
      => (isPlaying' /\ currentWordIndex' = currentWordIndex)
    ]_vars

\* ------------------------------------------------------------------------
\* C21: with armed timers firing and no further user command or settings
\* change, every Playing state leads to a Paused state at a paragraph break
\* or at the end of the text: playback neither runs forever nor stalls.
\* ------------------------------------------------------------------------
C21_PlaybackReachesPause ==
  (isPlaying /\ ~userPresent)
    ~> ( /\ isPaused /\ ~isPlaying
         /\ timers = {}
         /\ currentWordIndex >= paragraphEndIndex(S)
         /\ status.isBreak
         /\ status.message \in {MsgParagraphBreak, MsgEndOfText} )

\* left alone during playback, the engine stopped at a paragraph break after
\* a sentence pause
C21_Witness ==
  /\ ~userPresent
  /\ isPaused
  /\ last.op = "timerSentenceAdvance"
  /\ status.message = MsgParagraphBreak
  /\ currentWordIndex < totalWords
====
